---- MODULE Spec2Model ----
(***************************************************************************)
(* Model of adafruit_circuitplayground.circuit_playground_base:            *)
(* the CircuitPlaygroundBase facade and its Photocell helper.              *)
(*                                                                         *)
(* The facade is single-threaded; every public property or method is one   *)
(* atomic action.  The peripheral drivers (touchio, adafruit_lis3dh,       *)
(* gamepad, analogio) are the environment: their return values are drawn   *)
(* from small sets, and every call made to them is logged.                 *)
(***************************************************************************)
EXTENDS Integers, Sequences, FiniteSets, TLC

(* ---------------------------- bounds ----------------------------------- *)
MaxReads   == 2      \* touch reads in one run
MaxAdjusts == 2      \* adjust_touch_threshold calls in one run
MaxAssign  == 5      \* assignments to detect_taps in one run (constructor included)
MaxPolls   == 3      \* were_pressed reads in one run
MaxLightReads == 2   \* light reads in one run
MaxButtonReads == 2  \* button_a reads in one run

(* ------------------------- touch: constants ---------------------------- *)
\* Indices of self._touches; slot 0 holds None.
Slots      == 0..7
TouchSlots == 1..7
Pads       == {"A1", "A2", "A3", "A4", "A5", "A6", "TX"}

\* The pin each slot holds after construction (self._touches = [None, board.A1, ...]).
PinOf(i) ==
    CASE i = 1 -> "A1" [] i = 2 -> "A2" [] i = 3 -> "A3" [] i = 4 -> "A4"
      [] i = 5 -> "A5" [] i = 6 -> "A6" [] i = 7 -> "TX" [] OTHER -> "None"

\* The slot index each touch_* property passes to _touch; the mutant has the
\* copy-and-paste slip of touch_TX reading slot 6.
SlotOf_pasted(pad) ==
    CASE pad = "A1" -> 1 [] pad = "A2" -> 2 [] pad = "A3" -> 3 [] pad = "A4" -> 4
      [] pad = "A5" -> 5 [] pad = "A6" -> 6 [] pad = "TX" -> 6

SlotOf(pad) ==
    CASE pad = "A1" -> 1 [] pad = "A2" -> 2 [] pad = "A3" -> 3 [] pad = "A4" -> 4
      [] pad = "A5" -> 5 [] pad = "A6" -> 6 [] pad = "TX" -> 7

\* Inputs of the touch driver: the threshold touchio.TouchIn calibrates at
\* construction, the raw reading behind TouchIn.value, and the adjustments a
\* caller passes.
Thresholds == {100, 130}
TouchRaw   == {90, 160}
Deltas     == {-1, 2}

VARIABLES
    touches,                      \* self._touches
    touch_threshold_adjustment,   \* self._touch_threshold_adjustment
    touch_ret,                    \* value returned by the last touch read
    constructed,                  \* log: touchio.TouchIn(pin) calls that returned, per pin
    failed,                       \* log: touchio.TouchIn(pin) calls that raised, per pin
    raised,                       \* the last touch operation raised to its caller
    reads,                        \* log: touch_* reads per pad
    firstHandle,                  \* log: handle in the slot after the pad's first read
    baseThreshold,                \* log: threshold the driver gave each handle
    boundAfter,                   \* log: the slot was bound after some adjust call
    sumDeltas,                    \* log: sum of the adjustments passed so far
    numAdjust,                    \* log: adjust_touch_threshold calls
    thresholdWrites,              \* log: writes of TouchIn.threshold by the last operation
    detect_taps,                  \* self._detect_taps
    lis3dh_tap,                   \* tap configuration held by the accelerometer
    tapCalls,                     \* log: self._lis3dh.set_tap calls
    assigned,                     \* log: values assigned to detect_taps
    callMark,                     \* log: Len(tapCalls) after each assignment
    a_value, b_value,             \* self._a.value, self._b.value
    gamepad_latched,              \* GamePad: buttons pressed since the last poll
    were_ret,                     \* value returned by the last were_pressed read
    pressedMask,                  \* log: bitmask the last get_pressed returned
    polls,                        \* log: gamepad.get_pressed calls
    wereReads,                    \* log: were_pressed reads
    button_ret,                   \* value returned by the last button_a read
    buttonReads,                  \* log: button_a reads
    everPressed,                  \* log: buttons pressed since construction
    scannedHeld,                  \* log: buttons held during a scan since the last poll
    polledHeld,                   \* log: scannedHeld at the last poll
    photocell_value,              \* analogio.AnalogIn.value of the photocell
    light_ret,                    \* value returned by the last light read
    lightRaw,                     \* log: raw value the last light read sampled
    lightReads                    \* log: light reads

touchVars == <<touches, touch_threshold_adjustment, touch_ret, constructed, reads,
               firstHandle, baseThreshold, boundAfter, sumDeltas, numAdjust, thresholdWrites,
               failed, raised>>
tapVars   == <<detect_taps, lis3dh_tap, tapCalls, assigned, callMark>>
padVars   == <<a_value, b_value, gamepad_latched, were_ret, pressedMask, polls, wereReads,
               button_ret, buttonReads, everPressed, scannedHeld, polledHeld>>
lightVars == <<photocell_value, light_ret, lightRaw, lightReads>>
vars      == <<touchVars, tapVars, padVars, lightVars>>

(* --------------------------- touch slots ------------------------------- *)
NoneSlot == [kind |-> "None", pin |-> "None", id |-> 0, threshold |-> 0]

\* An unpromoted slot: the board pin itself.
Pin(name) == [kind |-> "Pin", pin |-> name, id |-> 0, threshold |-> 0]

\* touchio.TouchIn(pin): a fresh driver object with the calibrated threshold.
TouchIn(pin, id, threshold) ==
    [kind |-> "TouchIn", pin |-> pin, id |-> id, threshold |-> threshold]

\* isinstance(x, touchio.TouchIn)
IsTouchIn(x) == x.kind = "TouchIn"

\* Sum of a per-pad log over the seven pads.
Total(f) == f["A1"] + f["A2"] + f["A3"] + f["A4"] + f["A5"] + f["A6"] + f["TX"]

\* Handles are numbered in order of construction.
NextId == Total(constructed) + 1

BoundSlots == {i \in Slots : IsTouchIn(touches[i])}

\* `if not isinstance(self._touches[i], touchio.TouchIn)`; the mutant drops
\* the cache test and promotes on every read.
NeedsPromotion_always(slot) == TRUE

NeedsPromotion(slot) == ~IsTouchIn(slot)

\* The two lines of the promotion branch: construct, then
\* `threshold += self._touch_threshold_adjustment`; the mutant forgets the
\* second line.
Promoted_unadjusted(slot, id, base, adjustment) == TouchIn(slot.pin, id, base)

Promoted(slot, id, base, adjustment) ==
    [TouchIn(slot.pin, id, base) EXCEPT !.threshold = @ + adjustment]

\* The loop of adjust_touch_threshold; the mutant adjusts only the first
\* bound slot it meets.
AdjustedTouches_first(ts, adjustment) ==
    [i \in Slots |->
        IF IsTouchIn(ts[i]) /\ \A j \in Slots : j < i => ~IsTouchIn(ts[j])
        THEN [ts[i] EXCEPT !.threshold = @ + adjustment]
        ELSE ts[i]]

AdjustedTouches(ts, adjustment) ==
    [i \in Slots |->
        IF IsTouchIn(ts[i])
        THEN [ts[i] EXCEPT !.threshold = @ + adjustment]
        ELSE ts[i]]

\* `self._touch_threshold_adjustment += adjustment`; the mutant assigns.
AdjustedAccumulator_assign(acc, adjustment) == adjustment

AdjustedAccumulator(acc, adjustment) == acc + adjustment

\* The touch state as one value, and the two operations as functions of it.
TouchState(ts, acc) == [touches |-> ts, adjustment |-> acc]

AfterAdjust(s, adjustment) ==
    TouchState(AdjustedTouches(s.touches, adjustment),
               AdjustedAccumulator(s.adjustment, adjustment))

AfterTouch(s, i, id, base) ==
    TouchState([s.touches EXCEPT ![i] =
                   IF NeedsPromotion(@) THEN Promoted(@, id, base, s.adjustment) ELSE @],
               s.adjustment)

\* The touch state after a read whose touchio.TouchIn(pin) call raised: the
\* assignment of line 294 never happens.  The mutant has emptied the slot
\* before constructing.
AfterFailedTouch_cleared(s, i) ==
    TouchState([s.touches EXCEPT ![i] = NoneSlot], s.adjustment)

AfterFailedTouch(s, i) == s

\* TouchIn.value: the raw reading is above the threshold.
TouchValue(slot, raw) == raw > slot.threshold

(* ------------------------- tap detection ------------------------------- *)
TapValues == {0, 1, 2, 3}

\* The arguments of one self._lis3dh.set_tap call.
SetTap(tap, threshold, time_limit, time_latency, time_window) ==
    [tap |-> tap, threshold |-> threshold, time_limit |-> time_limit,
     time_latency |-> time_latency, time_window |-> time_window]

\* The accelerometer before any set_tap call.
NoTap == SetTap(0, 0, 0, 0, 0)

\* The set_tap calls the detect_taps setter makes for a value, in order (two
\* independent `if`s).  Mutants: the second test written as an `else`; the
\* double-tap call made with the single-tap threshold; the first test
\* written as `value >= 1`.
detect_taps_calls_else(value) ==
    IF value = 1 THEN <<SetTap(value, 90, 4, 50, 255)>>
    ELSE <<SetTap(value, 60, 10, 50, 255)>>

detect_taps_calls_same(value) ==
    (IF value = 1 THEN <<SetTap(value, 90, 4, 50, 255)>> ELSE <<>>)
      \o (IF value = 2 THEN <<SetTap(value, 90, 4, 50, 255)>> ELSE <<>>)

detect_taps_calls_both(value) ==
    (IF value >= 1 THEN <<SetTap(value, 90, 4, 50, 255)>> ELSE <<>>)
      \o (IF value = 2 THEN <<SetTap(value, 60, 10, 50, 255)>> ELSE <<>>)

detect_taps_calls(value) ==
    (IF value = 1 THEN <<SetTap(value, 90, 4, 50, 255)>> ELSE <<>>)
      \o (IF value = 2 THEN <<SetTap(value, 60, 10, 50, 255)>> ELSE <<>>)

\* The set_tap calls of the constructor: `self.detect_taps = 1` goes through
\* the setter.  The mutant stops at `self._detect_taps = 1`.
ConstructorTapCalls_none == <<>>

ConstructorTapCalls == detect_taps_calls(1)

\* The configuration the accelerometer holds after a sequence of set_tap calls.
AfterCalls(config, calls) == IF calls = <<>> THEN config ELSE calls[Len(calls)]

(* ----------------------------- buttons --------------------------------- *)
Buttons == {"A", "B"}

RECURSIVE BitAnd(_, _)
BitAnd(x, y) ==
    IF x = 0 \/ y = 0 THEN 0
    ELSE ((x % 2) * (y % 2)) + 2 * BitAnd(x \div 2, y \div 2)

RECURSIVE BitOr(_, _)
BitOr(x, y) ==
    IF x = 0 THEN y
    ELSE IF y = 0 THEN x
    ELSE (IF (x % 2) + (y % 2) > 0 THEN 1 ELSE 0) + 2 * BitOr(x \div 2, y \div 2)

\* (('A', 0x01), ('B', 0x02)); the mutant gives both buttons mask 0x01.
ButtonMask_dup(button) == 1

ButtonMask(button) == IF button = "A" THEN 1 ELSE 2

\* The loop of were_pressed over one polled bitmask.
were_pressed_decode(pressed) ==
    {button \in Buttons : BitAnd(ButtonMask(button), pressed) # 0}

\* The pins as the GamePad scanner sees them: bit 0 = self._a, bit 1 = self._b;
\* the mutant constructs the GamePad with the two pins in the other order.
PinBits_swapped == (IF b_value THEN 1 ELSE 0) + (IF a_value THEN 2 ELSE 0)

PinBits == (IF a_value THEN 1 ELSE 0) + (IF b_value THEN 2 ELSE 0)

\* The buttons held down now.
HeldButtons == {button \in Buttons : IF button = "A" THEN a_value ELSE b_value}

(* ------------------------------ light ---------------------------------- *)
ADCBits  == 16
ADCRange == 2 ^ ADCBits        \* AnalogIn.value is a 16-bit reading
ADCMax   == ADCRange - 1
NoRead   == -1

\* Raw readings tried: both ends of the range, and both sides of the places
\* where the scaled value steps.
LightSamples ==
    {0, 1, 198, 199, 397, 398, 32767, 32768, 32769, 65138, 65139,
     65336, 65337, 65338, ADCMax - 1, ADCMax}

\* Photocell.light; the mutant divides by the largest reading instead of 2 ** 16.
Photocell_light_max(value) == (value * 330) \div (2 ^ ADCBits - 1)

Photocell_light(value) == (value * 330) \div (2 ^ ADCBits)

(* ------------------------------- Init ---------------------------------- *)
\* The state after CircuitPlaygroundBase.__init__.
Init ==
    /\ touches = [i \in Slots |-> IF i = 0 THEN NoneSlot ELSE Pin(PinOf(i))]
    /\ touch_threshold_adjustment = 0
    /\ touch_ret = FALSE
    /\ constructed = [p \in Pads |-> 0]
    /\ failed = [p \in Pads |-> 0]
    /\ raised = FALSE
    /\ reads = [p \in Pads |-> 0]
    /\ firstHandle = [p \in Pads |-> 0]
    /\ baseThreshold = [i \in Slots |-> 0]
    /\ boundAfter = [i \in Slots |-> FALSE]
    /\ sumDeltas = 0
    /\ numAdjust = 0
    /\ thresholdWrites = 0
    \* self._detect_taps = 1; self.detect_taps = 1
    /\ detect_taps = 1
    /\ tapCalls = ConstructorTapCalls
    /\ lis3dh_tap = AfterCalls(NoTap, ConstructorTapCalls)
    /\ assigned = <<1>>
    /\ callMark = <<Len(ConstructorTapCalls)>>
    \* no button is held when the board starts
    /\ a_value = FALSE
    /\ b_value = FALSE
    /\ gamepad_latched = 0
    /\ were_ret = {}
    /\ pressedMask = 0
    /\ polls = 0
    /\ wereReads = 0
    /\ button_ret = FALSE
    /\ buttonReads = 0
    /\ everPressed = {}
    /\ scannedHeld = {}
    /\ polledHeld = {}
    \* the board starts in the dark
    /\ photocell_value = 0
    /\ light_ret = NoRead
    /\ lightRaw = NoRead
    /\ lightReads = 0

(* ------------------------------ actions -------------------------------- *)
\* touch_A1 .. touch_TX: `return self._touch(i)`.  base is the threshold the
\* driver calibrates if it is constructed, raw the reading behind .value.
touch(pad, base, raw) ==
    LET i       == SlotOf(pad)
        slot    == touches[i]
        promote == NeedsPromotion(slot)
    IN  /\ Total(reads) < MaxReads
        /\ touches' = AfterTouch(TouchState(touches, touch_threshold_adjustment),
                                 i, NextId, base).touches
        /\ touch_ret' = TouchValue(touches'[i], raw)
        /\ constructed' = IF promote
                          THEN [constructed EXCEPT ![slot.pin] = @ + 1]
                          ELSE constructed
        /\ baseThreshold' = IF promote
                            THEN [baseThreshold EXCEPT ![i] = base]
                            ELSE baseThreshold
        /\ boundAfter' = IF promote
                         THEN [boundAfter EXCEPT ![i] = numAdjust > 0]
                         ELSE boundAfter
        /\ thresholdWrites' = IF promote THEN 1 ELSE 0
        /\ reads' = [reads EXCEPT ![pad] = @ + 1]
        /\ firstHandle' = IF reads[pad] = 0
                          THEN [firstHandle EXCEPT ![pad] = touches'[i].id]
                          ELSE firstHandle
        /\ raised' = FALSE
        /\ UNCHANGED <<touch_threshold_adjustment, sumDeltas, numAdjust, failed>>
        /\ UNCHANGED <<tapVars, padVars, lightVars>>

\* A touch_* read in which touchio.TouchIn(pin) raises: the exception leaves
\* _touch before the slot is assigned and reaches the caller.
touch_fails(pad) ==
    LET i == SlotOf(pad)
        s == AfterFailedTouch(TouchState(touches, touch_threshold_adjustment), i)
    IN  /\ Total(reads) < MaxReads
        /\ NeedsPromotion(touches[i])
        /\ touches' = s.touches
        /\ touch_threshold_adjustment' = s.adjustment
        /\ failed' = [failed EXCEPT ![touches[i].pin] = @ + 1]
        /\ raised' = TRUE
        /\ reads' = [reads EXCEPT ![pad] = @ + 1]
        /\ thresholdWrites' = 0
        /\ UNCHANGED <<touch_ret, constructed, firstHandle, baseThreshold, boundAfter,
                       sumDeltas, numAdjust>>
        /\ UNCHANGED <<tapVars, padVars, lightVars>>

adjust_touch_threshold(adjustment) ==
    /\ numAdjust < MaxAdjusts
    /\ touches' =
           AfterAdjust(TouchState(touches, touch_threshold_adjustment), adjustment).touches
    /\ touch_threshold_adjustment' =
           AfterAdjust(TouchState(touches, touch_threshold_adjustment), adjustment).adjustment
    /\ thresholdWrites' =
           Cardinality({i \in Slots :
               AdjustedTouches(touches, adjustment)[i] # touches[i]})
    /\ sumDeltas' = sumDeltas + adjustment
    /\ numAdjust' = numAdjust + 1
    /\ raised' = FALSE
    /\ UNCHANGED <<touch_ret, constructed, reads, firstHandle, baseThreshold, boundAfter, failed>>
    /\ UNCHANGED <<tapVars, padVars, lightVars>>

\* The detect_taps setter.
detect_taps_setter(value) ==
    /\ Len(assigned) < MaxAssign
    /\ detect_taps' = value
    /\ tapCalls' = tapCalls \o detect_taps_calls(value)
    /\ lis3dh_tap' = AfterCalls(lis3dh_tap, detect_taps_calls(value))
    /\ assigned' = Append(assigned, value)
    /\ callMark' = Append(callMark, Len(tapCalls) + Len(detect_taps_calls(value)))
    /\ UNCHANGED <<touchVars, padVars, lightVars>>

\* A button is pressed or released by hand.
SetButton(button, value) ==
    /\ IF button = "A"
       THEN a_value' = value /\ a_value # value /\ UNCHANGED b_value
       ELSE b_value' = value /\ b_value # value /\ UNCHANGED a_value
    /\ everPressed' = IF value THEN everPressed \cup {button} ELSE everPressed
    /\ UNCHANGED <<gamepad_latched, were_ret, pressedMask, polls, wereReads>>
    /\ UNCHANGED <<button_ret, buttonReads, scannedHeld, polledHeld>>
    /\ UNCHANGED <<touchVars, tapVars, lightVars>>

\* The GamePad scanner runs and latches the buttons that are held.
GamePadScan ==
    /\ gamepad_latched' = BitOr(gamepad_latched, PinBits)
    /\ gamepad_latched' # gamepad_latched
    /\ scannedHeld' = scannedHeld \cup HeldButtons
    /\ UNCHANGED <<a_value, b_value, were_ret, pressedMask, polls, wereReads>>
    /\ UNCHANGED <<button_ret, buttonReads, everPressed, polledHeld>>
    /\ UNCHANGED <<touchVars, tapVars, lightVars>>

\* were_pressed: one gamepad.get_pressed(), which returns and clears the
\* latched buttons, then the decoding loop.
were_pressed ==
    /\ wereReads < MaxPolls
    /\ pressedMask' = gamepad_latched
    /\ gamepad_latched' = 0
    /\ polls' = polls + 1
    /\ were_ret' = were_pressed_decode(gamepad_latched)
    /\ wereReads' = wereReads + 1
    /\ polledHeld' = scannedHeld
    /\ scannedHeld' = {}
    /\ UNCHANGED <<a_value, b_value, button_ret, buttonReads, everPressed>>
    /\ UNCHANGED <<touchVars, tapVars, lightVars>>

\* button_a: `return self._a.value`.
button_a ==
    /\ buttonReads < MaxButtonReads
    /\ button_ret' = a_value
    /\ buttonReads' = buttonReads + 1
    /\ UNCHANGED <<a_value, b_value, gamepad_latched, were_ret, pressedMask, polls,
                   wereReads, everPressed, scannedHeld, polledHeld>>
    /\ UNCHANGED <<touchVars, tapVars, lightVars>>

\* The light falling on the photocell changes.
LightChanges(value) ==
    /\ photocell_value' = value
    /\ photocell_value # value
    /\ UNCHANGED <<light_ret, lightRaw, lightReads>>
    /\ UNCHANGED <<touchVars, tapVars, padVars>>

\* CircuitPlaygroundBase.light: `return self._light.light`.
light ==
    /\ lightReads < MaxLightReads
    /\ lightRaw' = photocell_value
    /\ light_ret' = Photocell_light(photocell_value)
    /\ lightReads' = lightReads + 1
    /\ UNCHANGED photocell_value
    /\ UNCHANGED <<touchVars, tapVars, padVars>>

(* --------------------------- specifications ---------------------------- *)
\* The touch pads.
Next ==
    \/ \E pad \in Pads, base \in Thresholds, raw \in TouchRaw : touch(pad, base, raw)
    \/ \E adjustment \in Deltas : adjust_touch_threshold(adjustment)

Spec == Init /\ [][Next]_vars

\* The touch pads with a touch driver whose constructor can fail.
NextFail ==
    \/ \E pad \in Pads, base \in Thresholds, raw \in TouchRaw : touch(pad, base, raw)
    \/ \E pad \in Pads : touch_fails(pad)
    \/ \E adjustment \in Deltas : adjust_touch_threshold(adjustment)

SpecFail == Init /\ [][NextFail]_vars

\* Tap detection.
NextTap == \E value \in TapValues : detect_taps_setter(value)

SpecTap == Init /\ [][NextTap]_vars

\* The buttons and the gamepad.
NextPad ==
    \/ \E button \in Buttons, value \in BOOLEAN : SetButton(button, value)
    \/ GamePadScan
    \/ were_pressed
    \/ button_a

SpecPad == Init /\ [][NextPad]_vars

\* The light sensor.
NextLight ==
    \/ \E value \in LightSamples : LightChanges(value)
    \/ light

SpecLight == Init /\ [][NextLight]_vars

TypeOK ==
    /\ \A i \in Slots : touches[i].kind \in {"None", "Pin", "TouchIn"}
    /\ touch_threshold_adjustment \in Int
    /\ detect_taps \in TapValues
    /\ gamepad_latched \in 0..3
    /\ were_ret \subseteq Buttons
    /\ photocell_value \in 0..ADCMax

(* ------------------------------ claims --------------------------------- *)
\* The slot that holds a pad's pin after construction.
HomeSlot(pad) == CHOOSE i \in TouchSlots : PinOf(i) = pad

\* Len(tapCalls) after the k-th assignment to detect_taps (0 before the first).
Mark(k) == IF k = 0 THEN 0 ELSE callMark[k]

\* The set_tap calls made by the k-th assignment to detect_taps.
CallsOf(k) == SubSeq(tapCalls, Mark(k - 1) + 1, Mark(k))

\* C1: a pad that has been read at least once has had the touch driver
\* constructed for its pin exactly once, its slot holds the handle the first
\* read created, and no pin has the driver constructed more than once.
C1_PromotionOnce ==
    /\ \A pad \in Pads : constructed[pad] <= 1
    /\ \A i \in TouchSlots :
           reads[PinOf(i)] >= 1 =>
               /\ constructed[PinOf(i)] = 1
               /\ IsTouchIn(touches[i])
               /\ firstHandle[PinOf(i)] >= 1
               /\ touches[i].id = firstHandle[PinOf(i)]

\* C1 witness: a pad read twice, with an adjustment made as well.
C1_Witness == numAdjust >= 1 /\ \E pad \in Pads : reads[pad] >= 2

\* C2: the threshold of every bound slot is the threshold the driver gave it
\* at construction plus the sum of all adjustments passed so far.
C2_ThresholdIsBasePlusSum ==
    \A i \in Slots :
        IsTouchIn(touches[i]) => touches[i].threshold = baseThreshold[i] + sumDeltas

\* C2 witness: one slot bound before every adjustment, another bound after
\* an adjustment, and the adjustments do not cancel.
C2_Witness ==
    /\ numAdjust >= 1
    /\ sumDeltas # 0
    /\ \E i, j \in BoundSlots : ~boundAfter[i] /\ boundAfter[j]

\* C3: from every reachable state, two adjustments d1 then d2 leave the same
\* accumulator and slots as the single adjustment d1 + d2, and a slot bound
\* by a touch read after either gets the same threshold.
C3_AdjustAdditive ==
    LET s == TouchState(touches, touch_threshold_adjustment)
    IN  \A d1 \in Deltas, d2 \in Deltas :
            LET two == AfterAdjust(AfterAdjust(s, d1), d2)
                one == AfterAdjust(s, d1 + d2)
            IN  /\ two.adjustment = one.adjustment
                /\ \A i \in TouchSlots : two.touches[i] = one.touches[i]
                /\ \A i \in TouchSlots, base \in Thresholds :
                       AfterTouch(two, i, NextId, base).touches[i].threshold
                           = AfterTouch(one, i, NextId, base).touches[i].threshold

\* C3 witness: adjustments already made, with a slot bound and a slot unbound.
C3_Witness ==
    /\ numAdjust >= 2
    /\ touch_threshold_adjustment # 0
    /\ BoundSlots # {}
    /\ \E i \in TouchSlots : ~IsTouchIn(touches[i])

\* C4: a bound slot stays bound with the same handle in every step, and a
\* touch read leaves every slot that was already bound exactly as it was.
C4_BoundNeverReverts ==
    [][\A i \in Slots :
           IsTouchIn(touches[i]) =>
               /\ IsTouchIn(touches'[i])
               /\ touches'[i].id = touches[i].id
               /\ touches'[i].pin = touches[i].pin
               /\ (reads' # reads => touches'[i] = touches[i])]_vars

\* C4 witness: a slot bound before an adjustment whose pad has been read twice.
C4_Witness ==
    \E pad \in Pads :
        /\ reads[pad] >= 2
        /\ IsTouchIn(touches[HomeSlot(pad)])
        /\ ~boundAfter[HomeSlot(pad)]
        /\ touches[HomeSlot(pad)].threshold # baseThreshold[HomeSlot(pad)]

\* C5: no slot is bound after construction; a slot is bound only if its pad
\* has been read; a touch read changes no slot but the pad's own; an
\* adjustment binds nothing and constructs nothing, and with no slot bound
\* it only grows the accumulator and writes no driver threshold.
C5_DeferredInit ==
    /\ \A i \in Slots : ~IsTouchIn(touches[i])
    /\ [](\A i \in Slots :
              IsTouchIn(touches[i]) => i \in TouchSlots /\ reads[PinOf(i)] >= 1)
    /\ [][/\ \A pad \in Pads :
                reads'[pad] # reads[pad] =>
                    \A j \in Slots \ {HomeSlot(pad)} : touches'[j] = touches[j]
          /\ numAdjust' # numAdjust =>
                /\ BoundSlots' = BoundSlots
                /\ constructed' = constructed
                /\ BoundSlots = {} =>
                      /\ touches' = touches
                      /\ thresholdWrites' = 0
                      /\ touch_threshold_adjustment' =
                             touch_threshold_adjustment + (sumDeltas' - sumDeltas)]_vars

\* C5 witness: an adjustment made before any slot was bound, then one read.
C5_Witness ==
    /\ Cardinality(BoundSlots) = 1
    /\ \A i \in BoundSlots : boundAfter[i]
    /\ touch_threshold_adjustment # 0

\* C6: whenever detect_taps is assigned 1 and then 2, the two assignments
\* make exactly two set_tap calls, the single-tap set then the double-tap
\* set, and the two differ.
C6_SingleThenDouble ==
    \A k \in 1..(Len(assigned) - 1) :
        (assigned[k] = 1 /\ assigned[k + 1] = 2) =>
            /\ CallsOf(k) \o CallsOf(k + 1)
                 = << [tap |-> 1, threshold |-> 90, time_limit |-> 4,
                       time_latency |-> 50, time_window |-> 255],
                      [tap |-> 2, threshold |-> 60, time_limit |-> 10,
                       time_latency |-> 50, time_window |-> 255] >>
            /\ CallsOf(k) # CallsOf(k + 1)

\* C6 witness: 1 then 2 assigned by the caller, after the constructor's own 1.
C6_Witness ==
    \E k \in 2..(Len(assigned) - 1) : assigned[k] = 1 /\ assigned[k + 1] = 2

\* C7: detect_taps reads the value last assigned; an assignment of a value
\* other than 1 or 2 makes no set_tap call; the accelerometer holds the
\* configuration of the last assignment of 1 or 2.
C7_OtherValueStoredOnly ==
    /\ detect_taps = assigned[Len(assigned)]
    /\ \A k \in 1..Len(assigned) : assigned[k] \notin {1, 2} => CallsOf(k) = <<>>
    /\ \A k \in 1..Len(assigned) :
           (/\ assigned[k] \in {1, 2}
            /\ \A m \in (k + 1)..Len(assigned) : assigned[m] \notin {1, 2})
               => /\ lis3dh_tap.tap = assigned[k]
                  /\ lis3dh_tap.threshold = (IF assigned[k] = 1 THEN 90 ELSE 60)
                  /\ lis3dh_tap.time_limit = (IF assigned[k] = 1 THEN 4 ELSE 10)

\* C7 witness: 2 assigned, then 3, which detect_taps now reads.
C7_Witness ==
    /\ Len(assigned) >= 3
    /\ assigned[Len(assigned) - 1] = 2
    /\ assigned[Len(assigned)] = 3
    /\ detect_taps = 3

\* C8 as stated: every assignment of Disabled (0), SingleTap (1) or
\* DoubleTap (2) makes one set_tap call.
C8_EveryModeConfigures ==
    \A k \in 1..Len(assigned) : assigned[k] \in {0, 1, 2} => Len(CallsOf(k)) = 1

\* C8 amended: an assignment of SingleTap (1) or DoubleTap (2) makes exactly
\* one set_tap call, for that mode; an assignment of Disabled (0) makes none.
C8_OnlyTapModesConfigure ==
    \A k \in 1..Len(assigned) :
        /\ assigned[k] \in {1, 2} =>
               Len(CallsOf(k)) = 1 /\ CallsOf(k)[1].tap = assigned[k]
        /\ assigned[k] = 0 => Len(CallsOf(k)) = 0

\* C8 witness: the caller has assigned each of 0, 1 and 2.
C8_Witness ==
    \A v \in {0, 1, 2} : \E k \in 2..Len(assigned) : assigned[k] = v

\* C9: after a were_pressed read the result holds 'A' exactly when bit 0 of
\* the polled bitmask is set, 'B' exactly when bit 1 is set, and nothing
\* else; every were_pressed read made one poll.
C9_WerePressedDecodes ==
    /\ polls = wereReads
    /\ wereReads >= 1 =>
           /\ ("A" \in were_ret) <=> (pressedMask % 2 = 1)
           /\ ("B" \in were_ret) <=> ((pressedMask \div 2) % 2 = 1)
           /\ were_ret \subseteq {"A", "B"}
           /\ pressedMask = 3 => were_ret = {"A", "B"}
           /\ pressedMask = 0 => were_ret = {}
           /\ pressedMask = 1 => were_ret = {"A"}

\* C9 witness: a second read whose poll returned 0x03.
C9_Witness == wereReads >= 2 /\ pressedMask = 3 /\ were_ret = {"A", "B"}

\* C10 as stated: the largest raw reading gives a light level of exactly 330.
C10_MaxReadingGives330 ==
    (lightReads >= 1 /\ lightRaw = ADCMax) => light_ret = 330

\* C10 amended: light is the raw reading times 330 integer-divided by 65536;
\* a raw reading of 0 gives 0, the largest raw reading, 65535, gives 329, and
\* no reading gives 330.
C10_LightScaling ==
    lightReads >= 1 =>
        /\ 65536 * light_ret <= lightRaw * 330
        /\ lightRaw * 330 < 65536 * (light_ret + 1)
        /\ lightRaw = 0 => light_ret = 0
        /\ lightRaw = 65535 => light_ret = 329
        /\ light_ret < 330

\* C10 witness: a read of the largest raw reading.
C10_Witness == lightReads >= 1 /\ lightRaw = ADCMax /\ light_ret = 329

\* C11: a button_a read made while no button has been pressed since
\* construction returns false, and a were_pressed read whose poll covers a
\* scan that saw button A, and only A, held returns {A}.
C11_PressThenWerePressed ==
    /\ (buttonReads >= 1 /\ everPressed = {}) => button_ret = FALSE
    /\ everPressed = {} => gamepad_latched = 0 /\ were_ret = {}
    /\ (wereReads >= 1 /\ polledHeld = {"A"}) => were_ret = {"A"}

\* C11 witness: button_a read false, A alone was pressed and latched, and the
\* first were_pressed read returned {A}.
C11_Witness ==
    /\ buttonReads >= 1
    /\ button_ret = FALSE
    /\ everPressed = {"A"}
    /\ wereReads = 1
    /\ polledHeld = {"A"}
    /\ were_ret = {"A"}

\* C13: the constructor's assignment made exactly one set_tap call, with the
\* single-tap parameters; until the caller assigns detect_taps it reads 1 and
\* that call is the only one made; detect_taps always reads the value
\* assigned last.
C13_ConstructedSingleTap ==
    /\ assigned[1] = 1
    /\ CallsOf(1) = << [tap |-> 1, threshold |-> 90, time_limit |-> 4,
                        time_latency |-> 50, time_window |-> 255] >>
    /\ Len(assigned) = 1 =>
           /\ detect_taps = 1
           /\ tapCalls = CallsOf(1)
           /\ lis3dh_tap = tapCalls[1]
    /\ detect_taps = assigned[Len(assigned)]

\* C13 witness: the caller has since assigned 2 and then 0; the constructor's
\* call is still the first in the log.
C13_Witness ==
    /\ Len(assigned) = 3
    /\ assigned[2] = 2
    /\ assigned[3] = 0
    /\ detect_taps = 0
    /\ Len(tapCalls) = 2
    /\ tapCalls[1].tap = 1

\* C12: a touch read whose driver construction raises reaches the caller
\* after that one constructor call, leaves every slot (the pad's own still
\* holding its pin) and the accumulator as they were; and a constructor call
\* for a pin is made only by a touch read of that pin's pad while its slot is
\* unbound.
C12_FailurePropagates ==
    [][/\ \A pad \in Pads :
              failed'[pad] # failed[pad] =>
                  /\ raised'
                  /\ failed'[pad] = failed[pad] + 1
                  /\ reads'[pad] = reads[pad] + 1
                  /\ \A other \in Pads \ {pad} :
                         failed'[other] = failed[other] /\ reads'[other] = reads[other]
                  /\ constructed' = constructed
                  /\ touches' = touches
                  /\ touches'[HomeSlot(pad)] = Pin(pad)
                  /\ touch_threshold_adjustment' = touch_threshold_adjustment
       /\ \A pad \in Pads :
              constructed'[pad] + failed'[pad] # constructed[pad] + failed[pad] =>
                  /\ reads'[pad] = reads[pad] + 1
                  /\ ~IsTouchIn(touches[HomeSlot(pad)])
                  /\ constructed'[pad] + failed'[pad] = constructed[pad] + failed[pad] + 1]_vars

\* C12 witness: an adjustment was made, a pad's first construction raised and
\* a later read of the same pad bound its slot.
C12_Witness ==
    \E pad \in Pads :
        /\ failed[pad] >= 1
        /\ constructed[pad] = 1
        /\ IsTouchIn(touches[HomeSlot(pad)])
        /\ numAdjust >= 1
====
